---------------------------- MODULE Spec2Model ----------------------------
(***************************************************************************)
(* A model of the muni path tracer with the rough dielectric microfacet    *)
(* BSDF (rohkumar-dev/Microfacet-BSDF-Implementation).                     *)
(*                                                                         *)
(*   Spec       main() and the row threads running renderRow               *)
(*              (src/src/muni/scenes/box.h, lines 261-341).                *)
(*   ShadeSpec  one call of path_tracing_with_light_sampling and the       *)
(*              recursion of shade_with_light_sampling (lines 189-258).    *)
(*   ShadeLive  ShadeSpec with the fairness of the thread's steps and of   *)
(*              the roulette draw.                                         *)
(*   BsdfSpec   the pure functions of struct Dielectric (material.h, as    *)
(*              listed in src/README.md, lines 239-381).                   *)
(*                                                                         *)
(* float values are modelled as decimal floating-point numbers of a few    *)
(* digits, with the IEEE-754 values NaN, +inf and -inf.                    *)
(***************************************************************************)
EXTENDS Integers, Sequences, FiniteSets, TLC

VARIABLES
    \* ---- main() and the row threads
    mainpc,     \* position of main(): an index into MainOrder
    y,          \* main's loop variable y (box.h:329) / index of the join loop
    scene,      \* BoxScene::triangles and the octree: what has been written to them
    sceneLog,   \* the set of writes to the scene made while a row thread existed
    threads,    \* std::vector<std::thread>: per thread its state in renderRow
    image,      \* Image::pixels: per cell what has been done to it, and by whom
    saved,      \* image.save_with_tonemapping has run
    \* ---- the shading integrator
    stack,      \* the active invocations of shade_with_light_sampling, outermost first
    result,     \* what path_tracing_with_light_sampling returned, once done, for
                \* which camera ray and which answer of its query (primary)
    folded,     \* invocations below the deepest kept one were dropped from stack
    \* ---- the Dielectric functions
    call        \* the last call of a Dielectric function: its arguments and result

vars == <<mainpc, y, scene, sceneLog, threads, image, saved, stack, result, folded, call>>

renderVars == <<mainpc, y, scene, sceneLog, threads, image, saved>>
shadeVars  == <<stack, result, folded>>

(***************************************************************************)
(* Bounds of the model.                                                    *)
(***************************************************************************)
ImageWidth  == 2    \* image_width  (1080 in box.h:285)
ImageHeight == 2    \* image_height (1080 in box.h:286): one thread per row
MaxSpp      == 2    \* max_spp      (512 in box.h:325)
MaxShadeDraws == 1  \* draws made by one path_tracing_with_light_sampling call

Rows == 0 .. ImageHeight - 1
Cols == 0 .. ImageWidth - 1



(***************************************************************************)
(* float arithmetic.  A float is modelled as a decimal floating-point      *)
(* number <<m, e>> standing for m * 10^e, with a mantissa of Precision     *)
(* digits (10^(Precision-1) <= |m| < 10^Precision), or zero <<0, 0>>, or   *)
(* one of NaN, PosInf, NegInf.  Every operation rounds its exact result to *)
(* the nearest such number; division by zero, inf - inf, 0 * inf and the   *)
(* square root of a negative number give the IEEE-754 results.             *)
(***************************************************************************)
Precision == 4
MaxExp == 38        \* FLT_MAX is about 3.4 * 10^38
MinExp == 0 - 45    \* the least denormal is about 1.4 * 10^-45
SpecialExp == 999

Zero == <<0, 0>>
NaN == <<0, SpecialExp>>
PosInf == <<1, SpecialExp>>
NegInf == <<-1, SpecialExp>>

IsNaN(a) == a = NaN
IsInf(a) == a = PosInf \/ a = NegInf
IsFinite(a) == a[2] # SpecialExp

Sgn(i) == IF i < 0 THEN -1 ELSE IF i > 0 THEN 1 ELSE 0
Abs(i) == IF i < 0 THEN -i ELSE i

Pow10(k) == <<1, 10, 100, 1000, 10000, 100000, 1000000, 10000000, 100000000,
              1000000000>>[k + 1]

\* The number of decimal digits of i > 0.
NDigits(i) ==
    IF i < 10 THEN 1 ELSE IF i < 100 THEN 2 ELSE IF i < 1000 THEN 3
    ELSE IF i < 10000 THEN 4 ELSE IF i < 100000 THEN 5 ELSE IF i < 1000000 THEN 6
    ELSE IF i < 10000000 THEN 7 ELSE IF i < 100000000 THEN 8
    ELSE IF i < 1000000000 THEN 9 ELSE 10

\* n / d for integers n >= 0, d > 0, rounded to the nearest integer.
RoundDiv(n, d) == (2 * n + d) \div (2 * d)

RECURSIVE IsqrtIter(_, _)
IsqrtIter(n, x) ==
    IF (x + n \div x) \div 2 >= x THEN x ELSE IsqrtIter(n, (x + n \div x) \div 2)

IsqrtRound(n, r) == IF n - r * r > r THEN r + 1 ELSE r

\* The integer nearest to the square root of n >= 0.
Isqrt(n) == IF n = 0 THEN 0 ELSE IsqrtRound(n, IsqrtIter(n, n))

\* The float of sign s, mantissa m (normalised) and exponent e: overflow
\* gives an infinity, underflow zero.
Pack(s, m, e) ==
    IF e + Precision - 1 > MaxExp THEN (IF s > 0 THEN PosInf ELSE NegInf)
    ELSE IF e + Precision - 1 < MinExp THEN Zero
    ELSE <<s * m, e>>

NormCarry(s, m, e) ==
    IF m = Pow10(Precision) THEN Pack(s, Pow10(Precision - 1), e + 1) ELSE Pack(s, m, e)

NormShift(s, am, e, k) ==
    IF k > 0 THEN NormCarry(s, RoundDiv(am, Pow10(k)), e + k)
    ELSE NormCarry(s, am * Pow10(-k), e + k)

\* i * 10^e rounded to a float.
Norm(i, e) == IF i = 0 THEN Zero ELSE NormShift(Sgn(i), Abs(i), e, NDigits(Abs(i)) - Precision)

\* The float n / 1000.
Milli(n) == Norm(n, -3)

One == Milli(1000)
Two == Milli(2000)
Four == Milli(4000)
Half == Milli(500)

\* |a| < |b| for floats other than zero and NaN.
MagLt(a, b) == a[2] < b[2] \/ (a[2] = b[2] /\ Abs(a[1]) < Abs(b[1]))

\* a < b, a > b, a >= b, a <= b on floats: every comparison with NaN is false.
FLt(a, b) ==
    /\ ~IsNaN(a) /\ ~IsNaN(b)
    /\ IF Sgn(a[1]) # Sgn(b[1]) THEN Sgn(a[1]) < Sgn(b[1])
       ELSE IF Sgn(a[1]) = 0 THEN FALSE
       ELSE IF Sgn(a[1]) > 0 THEN MagLt(a, b)
       ELSE MagLt(b, a)
FGt(a, b) == FLt(b, a)
FLe(a, b) == ~IsNaN(a) /\ ~IsNaN(b) /\ ~FLt(b, a)
FGe(a, b) == FLe(b, a)

FNeg(a) == <<-a[1], a[2]>>

\* a + b for finite non-zero a, b with a[2] >= b[2].
AddAligned(a, b) ==
    IF a[2] - b[2] > Precision + 1 THEN a
    ELSE Norm(a[1] * Pow10(a[2] - b[2]) + b[1], b[2])

FAdd(a, b) ==
    IF IsNaN(a) \/ IsNaN(b) THEN NaN
    ELSE IF IsInf(a) /\ IsInf(b) THEN (IF a = b THEN a ELSE NaN)
    ELSE IF IsInf(a) \/ b = Zero THEN a
    ELSE IF IsInf(b) \/ a = Zero THEN b
    ELSE IF a[2] >= b[2] THEN AddAligned(a, b)
    ELSE AddAligned(b, a)

FSub(a, b) == FAdd(a, FNeg(b))

FMul(a, b) ==
    IF IsNaN(a) \/ IsNaN(b) THEN NaN
    ELSE IF IsInf(a) \/ IsInf(b)
           THEN (IF a = Zero \/ b = Zero THEN NaN
                 ELSE IF Sgn(a[1]) * Sgn(b[1]) > 0 THEN PosInf ELSE NegInf)
    ELSE Norm(a[1] * b[1], a[2] + b[2])

FDiv(a, b) ==
    IF IsNaN(a) \/ IsNaN(b) THEN NaN
    ELSE IF IsInf(a) /\ IsInf(b) THEN NaN
    ELSE IF IsInf(a) THEN (IF Sgn(a[1]) * Sgn(b[1]) < 0 THEN NegInf ELSE PosInf)
    ELSE IF IsInf(b) THEN Zero
    ELSE IF b = Zero THEN (IF a = Zero THEN NaN ELSE IF a[1] > 0 THEN PosInf ELSE NegInf)
    ELSE Norm(Sgn(a[1]) * Sgn(b[1]) * RoundDiv(Abs(a[1]) * Pow10(Precision + 1), Abs(b[1])),
              a[2] - b[2] - (Precision + 1))

\* sqrt(m * 10^e): with e even, isqrt(m * 10^4) * 10^(e/2 - 2); with e odd,
\* isqrt(m * 10^5) * 10^((e-1)/2 - 2).
FSqrt(a) ==
    IF IsNaN(a) \/ a[1] < 0 THEN NaN
    ELSE IF a = PosInf \/ a = Zero THEN a
    ELSE IF a[2] % 2 = 0 THEN Norm(Isqrt(a[1] * 10000), (a[2] \div 2) - 2)
    ELSE Norm(Isqrt(a[1] * 100000), ((a[2] - 1) \div 2) - 2)

\* std::max(a, b) is (a < b) ? b : a, std::clamp(v, lo, hi) is
\* (v < lo) ? lo : (hi < v) ? hi : v, abs(a) keeps a NaN.
FMax(a, b) == IF FLt(a, b) THEN b ELSE a
FClamp(v, lo, hi) == IF FLt(v, lo) THEN lo ELSE IF FLt(hi, v) THEN hi ELSE v
FAbs(a) == <<Abs(a[1]), a[2]>>

\* Vec3f (linalg.h): component-wise arithmetic, dot, normalize = v / length(v).
VAdd(a, b) == <<FAdd(a[1], b[1]), FAdd(a[2], b[2]), FAdd(a[3], b[3])>>
VScale(a, k) == <<FMul(a[1], k), FMul(a[2], k), FMul(a[3], k)>>
VNeg(a) == <<FNeg(a[1]), FNeg(a[2]), FNeg(a[3])>>
VDivS(a, k) == <<FDiv(a[1], k), FDiv(a[2], k), FDiv(a[3], k)>>
dot(a, b) == FAdd(FAdd(FMul(a[1], b[1]), FMul(a[2], b[2])), FMul(a[3], b[3]))
length(a) == FSqrt(dot(a, a))
normalize(a) == VDivS(a, length(a))

ZeroVec == <<Zero, Zero, Zero>>

(***************************************************************************)
(* math_helpers.h                                                          *)
(***************************************************************************)
\* std::copysign(1.0f, z)
copysign1(z) == IF z[1] < 0 THEN FNeg(One) ELSE One

\* math_helpers.h:28-34: the pair <<x, y>>.
coordinate_system(v1) ==
    LET sign == copysign1(v1[3])
        a == FDiv(FNeg(One), FAdd(sign, v1[3]))
        b == FMul(FMul(v1[1], v1[2]), a)
    IN  << <<FAdd(One, FMul(FMul(FMul(sign, v1[1]), v1[1]), a)),
             FMul(sign, b),
             FMul(FNeg(sign), v1[1])>>,
           <<b,
             FAdd(sign, FMul(FMul(v1[2], v1[2]), a)),
             FNeg(v1[2])>> >>

\* math_helpers.h:41-44
from_local_xy(v, n, xy) ==
    VAdd(VAdd(VScale(xy[1], v[1]), VScale(xy[2], v[2])), VScale(n, v[3]))

from_local(v, n) == from_local_xy(v, n, coordinate_system(n))

\* math_helpers.h:45-48
to_local_xy(v, n, xy) == <<dot(v, xy[1]), dot(v, xy[2]), dot(v, n)>>

to_local(v, n) == to_local_xy(v, n, coordinate_system(n))

\* math_helpers.h:55-57
mirror_reflect(incident_dir, normal) ==
    VAdd(incident_dir, VNeg(VScale(normal, FMul(Two, dot(incident_dir, normal)))))

(***************************************************************************)
(* struct Dielectric: material.h as listed in README.md, lines 239-381.    *)
(* mat is the material, [eta |-> , roughness |-> ].  Each function gives   *)
(* its value v and dens, the set of the denominators of the divisions the  *)
(* call has made.  A function is written as a chain of operators, one per  *)
(* group of statements, each handing the locals computed so far to the     *)
(* next.                                                                   *)
(***************************************************************************)
INV_PI == Norm(3183, -4)      \* #define INV_PI 0.31830989 (README.md:198)

\* README.md:259
Fresnel_ret(et, ds, dp, Rs, Rp) ==
    [v |-> FMul(Half, FAdd(FMul(Rs, Rs), FMul(Rp, Rp))), dens |-> {et, ds, dp}]

\* README.md:256-257
Fresnel_R(ei, et, cos_thetaI, cos_thetaT, ds, dp) ==
    Fresnel_ret(et, ds, dp,
                FDiv(FSub(FMul(et, cos_thetaI), FMul(ei, cos_thetaT)), ds),
                FDiv(FSub(FMul(ei, cos_thetaI), FMul(et, cos_thetaT)), dp))

Fresnel_den(ei, et, cos_thetaI, cos_thetaT) ==
    Fresnel_R(ei, et, cos_thetaI, cos_thetaT,
              FAdd(FMul(et, cos_thetaI), FMul(ei, cos_thetaT)),
              FAdd(FMul(ei, cos_thetaI), FMul(et, cos_thetaT)))

\* README.md:250-254
Fresnel_tir(ei, et, c, sin_thetaT) ==
    IF FGe(sin_thetaT, One)
      THEN [v |-> One, dens |-> {et}]
      ELSE Fresnel_den(ei, et, FAbs(c),
                       FSqrt(FMax(Zero, FSub(One, FMul(sin_thetaT, sin_thetaT)))))

\* README.md:249
Fresnel_sin(ei, et, c) ==
    Fresnel_tir(ei, et, c,
                FMul(FDiv(ei, et), FSqrt(FMax(Zero, FSub(One, FMul(c, c))))))

\* README.md:244-247: entering = cos_thetaI > 0; ei = eta, et = 1, swapped
\* when not entering.
Fresnel_swap(mat, c) ==
    IF FGt(c, Zero) THEN Fresnel_sin(mat.eta, One, c) ELSE Fresnel_sin(One, mat.eta, c)

\* README.md:242-260
FresnelR(mat, cos_thetaI) == Fresnel_swap(mat, FClamp(cos_thetaI, FNeg(One), One))

Fresnel(mat, cos_thetaI) == FresnelR(mat, cos_thetaI).v

\* README.md:271
D_ret(alpha_sq, cos_thetaH_sq, den) ==
    [v |-> FDiv(FMul(alpha_sq, INV_PI), den), dens |-> {cos_thetaH_sq, den}]

\* README.md:269-271
D_den(alpha_sq, cos_thetaH_sq, sqrt_denom) ==
    D_ret(alpha_sq, cos_thetaH_sq,
          FMul(FMul(FMul(cos_thetaH_sq, cos_thetaH_sq), sqrt_denom), sqrt_denom))

\* README.md:266-269
D_tan(alpha_sq, cos_thetaH_sq) ==
    D_den(alpha_sq, cos_thetaH_sq,
          FAdd(alpha_sq, FDiv(FSub(One, cos_thetaH_sq), cos_thetaH_sq)))

\* README.md:262-272
DR(mat, h) ==
    IF FLt(h[3], Zero)
      THEN [v |-> Zero, dens |-> {}]
      ELSE D_tan(FMul(mat.roughness, mat.roughness), FMul(h[3], h[3]))

D(mat, h) == DR(mat, h).v

\* README.md:289
G1_ret(w_sq, den) == [v |-> FDiv(Two, den), dens |-> {w_sq, den}]

\* README.md:287-289
G1_root(w_sq, root) == G1_ret(w_sq, FAdd(One, FSqrt(FAdd(One, FMul(root, root)))))

\* README.md:283-287
G1_tan(mat, w_sq, tan_thetaW_sq) ==
    IF FLe(tan_thetaW_sq, Zero)
      THEN [v |-> One, dens |-> {w_sq}]
      ELSE G1_root(w_sq, FMul(mat.roughness, FSqrt(tan_thetaW_sq)))

\* README.md:282
G1_sq(mat, w_sq) == G1_tan(mat, w_sq, FDiv(FSub(One, w_sq), w_sq))

\* README.md:278-290
G1R(mat, w, h) ==
    IF FLe(FMul(dot(w, h), w[3]), Zero)
      THEN [v |-> Zero, dens |-> {}]
      ELSE G1_sq(mat, FMul(w[3], w[3]))

G1(mat, w, h) == G1R(mat, w, h).v

\* README.md:274-276
G(mat, wo, wi, h) == FMul(G1(mat, wo, h), G1(mat, wi, h))

\* README.md:292-294
pdf(mat, h) == FMul(D(mat, h), h[3])

\* README.md:313-323: the two return statements.
eval_ret(reflect, etaT, wo, wi, inner, Fr, Dr, Gr, dwi, dwo, sqrt_denom, rden, tden) ==
    IF reflect
      THEN [v |-> FDiv(FMul(FMul(Fr, Dr), Gr), rden), reflect |-> TRUE,
            dens |-> inner \cup {rden}]
      ELSE [v |-> FAbs(FDiv(FMul(FMul(FMul(FMul(FMul(FMul(FSub(One, Fr), Dr), Gr),
                                           etaT), etaT), dwi), dwo),
                            tden)),
            reflect |-> FALSE,
            dens |-> inner \cup {tden}]

\* README.md:314, 319, 321: the denominators.
eval_den(reflect, etaT, wo, wi, inner, Fr, Dr, Gr, dwi, dwo, sqrt_denom) ==
    eval_ret(reflect, etaT, wo, wi, inner, Fr, Dr, Gr, dwi, dwo, sqrt_denom,
             FMul(FMul(Four, wi[3]), wo[3]),
             FMul(FMul(FMul(wi[3], wo[3]), sqrt_denom), sqrt_denom))

\* README.md:309-311, 319
eval_terms(mat, reflect, etaI, etaT, wo, wi, h, lens, D_h, F_h, G_o, G_i) ==
    eval_den(reflect, etaT, wo, wi,
             lens \cup D_h.dens \cup F_h.dens \cup G_o.dens \cup G_i.dens,
             F_h.v, D_h.v, FMul(G_o.v, G_i.v), dot(wi, h), dot(wo, h),
             FAdd(FMul(etaI, dot(wi, h)), FMul(etaT, dot(wo, h))))

\* README.md:306-311
eval_fold(mat, reflect, etaI, etaT, wo, wi, h, lens) ==
    eval_terms(mat, reflect, etaI, etaT, wo, wi, h, lens,
               DR(mat, h), FresnelR(mat, dot(wi, h)), G1R(mat, wo, h), G1R(mat, wi, h))

\* README.md:304-307: h is normalize(hsum), times reflect_coeff when reflecting.
eval_h(mat, reflect, etaI, etaT, wo0, wi0, hsum, lens) ==
    eval_fold(mat, reflect, etaI, etaT,
              IF FLt(wo0[3], Zero) THEN VScale(wo0, FNeg(One)) ELSE wo0,
              IF FLt(wi0[3], Zero) THEN VScale(wi0, FNeg(One)) ELSE wi0,
              IF reflect
                THEN VScale(normalize(hsum), IF FGt(wi0[3], Zero) THEN One ELSE FNeg(One))
                ELSE normalize(hsum),
              lens \cup {length(hsum)})

\* README.md:300-304
eval_eta(mat, reflect, etaI, etaT, wo0, wi0, lens) ==
    eval_h(mat, reflect, etaI, etaT, wo0, wi0,
           IF reflect THEN VAdd(wi0, wo0)
           ELSE VAdd(VScale(wi0, etaI), VScale(wo0, etaT)),
           lens)

\* README.md:298-301
eval_class(mat, wo0, wi0, lens) ==
    eval_eta(mat, FGt(FMul(wi0[3], wo0[3]), Zero),
             IF FLt(wo0[3], Zero) THEN mat.eta ELSE One,
             IF FLt(wo0[3], Zero) THEN One ELSE mat.eta,
             wo0, wi0, lens)

\* README.md:297
eval_local(mat, wo_l, wi_l) ==
    eval_class(mat, normalize(wo_l), normalize(wi_l), {length(wo_l), length(wi_l)})

\* README.md:296-324
Dielectric_evalR(mat, wo_world, wi_world, n) ==
    eval_local(mat, to_local(wo_world, n), to_local(wi_world, n))

Dielectric_eval(mat, wo_world, wi_world, n) == Dielectric_evalR(mat, wo_world, wi_world, n).v

\* <<sin(2 PI u), cos(2 PI u)>> at the quarter turns.
SinCos2Pi(u) ==
    CASE u = Zero -> <<Zero, One>>
      [] u = Milli(250) -> <<One, Zero>>
      [] u = Milli(500) -> <<Zero, FNeg(One)>>
      [] u = Milli(750) -> <<FNeg(One), Zero>>

\* README.md:330-333
sample_normal_m(mat, m) == [m |-> m, pdf_m |-> pdf(mat, m)]

sample_normal_dir(mat, sinM, cosM, sc) ==
    sample_normal_m(mat, normalize(<<FMul(sinM, sc[1]), FMul(sinM, sc[2]), cosM>>))

\* With t = tan(thetaM), cos(thetaM) = 1 / sqrt(1 + t^2) and
\* sin(thetaM) = t / sqrt(1 + t^2).
sample_normal_hyp(mat, t, hyp, u) ==
    sample_normal_dir(mat, FDiv(t, hyp), FDiv(One, hyp), SinCos2Pi(u[2]))

sample_normal_tan(mat, t, u) == sample_normal_hyp(mat, t, FSqrt(FAdd(One, FMul(t, t))), u)

\* README.md:326-334: thetaM = atan(roughness * sqrt(u.x) / sqrt(1 - u.x)),
\* phiM = 2 PI u.y.
sample_normal(mat, u) ==
    sample_normal_tan(mat,
                      FDiv(FMul(mat.roughness, FSqrt(u[1])), FSqrt(FSub(One, u[1]))),
                      u)

\* The return statements of sample as README.md:137, 149, 157 show them:
\* the selection probability times the pdf of the normal.
sample_retTimesPdf(n, F, pdf_m, reflected, wi, isnull, wt) ==
    IF reflected
      THEN [wi |-> from_local(normalize(wi), n), pdf |-> FMul(F, pdf_m),
            branch |-> "reflect"]
      ELSE IF isnull
             THEN [wi |-> ZeroVec, pdf |-> Zero, branch |-> "null"]
             ELSE [wi |-> from_local(normalize(wt), n),
                   pdf |-> FMul(FSub(One, F), pdf_m), branch |-> "transmit"]

\* README.md:349-350, 363, 374-376: the return statements; branch names the
\* one taken.
sample_ret(n, F, pdf_m, reflected, wi, isnull, wt) ==
    IF reflected
      THEN [wi |-> from_local(normalize(wi), n), pdf |-> F, branch |-> "reflect"]
      ELSE IF isnull
             THEN [wi |-> ZeroVec, pdf |-> Zero, branch |-> "null"]
             ELSE [wi |-> from_local(normalize(wt), n), pdf |-> FSub(One, F),
                   branch |-> "transmit"]

\* README.md:362-370
sample_refract(n, wo, F, pdf_m, reflected, wi, entering, etaEff, sin_thetaT2) ==
    sample_ret(n, F, pdf_m, reflected, wi, FGe(sin_thetaT2, One),
               <<FMul(etaEff, FNeg(wo[1])), FMul(etaEff, FNeg(wo[2])),
                 IF entering THEN FMul(FSqrt(FSub(One, sin_thetaT2)), FNeg(One))
                 ELSE FSqrt(FSub(One, sin_thetaT2))>>)

\* README.md:357-360
sample_snell(n, wo, cos_thetaO, F, pdf_m, reflected, wi, entering, etaEff) ==
    sample_refract(n, wo, F, pdf_m, reflected, wi, entering, etaEff,
                   FMul(FMul(etaEff, etaEff), FSub(One, FMul(cos_thetaO, cos_thetaO))))

\* README.md:347-358: the test u.x < F, the mirror direction, entering and etaEff.
sample_branch(mat, n, wo, m, cos_thetaO, F, pdf_m, u) ==
    sample_snell(n, wo, cos_thetaO, F, pdf_m, FLt(u[1], F),
                 mirror_reflect(VNeg(wo), m), FGt(wo[3], Zero),
                 IF FGt(wo[3], Zero) THEN FDiv(mat.eta, One) ELSE FDiv(One, mat.eta))

\* README.md:343-344
sample_fresnel(mat, n, wo, m, pdf_m, cos_thetaO, u) ==
    sample_branch(mat, n, wo, m, cos_thetaO, Fresnel(mat, cos_thetaO), pdf_m, u)

\* README.md:340-343
sample_m(mat, n, wo, sn, u) == sample_fresnel(mat, n, wo, sn.m, sn.pdf_m, dot(wo, sn.m), u)

\* README.md:337-377
Dielectric_sample(mat, wo_world, n, u) ==
    sample_m(mat, n, normalize(to_local(wo_world, n)),
             sample_normal(mat, <<u[2], u[3]>>), u)

(***************************************************************************)
(* main() and renderRow: box.h, lines 261-341.                             *)
(***************************************************************************)

\* The steps of main() in program order: load_obj and triangles.insert
\* (313-316), octree.build_octree (317), threads.clear (328), the loop that
\* creates one thread per row (329-330), the join loop (332-333),
\* save_with_tonemapping (336), return (340).
MainOrderBuildLate == <<"load", "clear", "spawn", "build", "join", "save", "done">>
\* The save of box.h:336 ahead of the joins of 332-333.
MainOrderSaveEarly == <<"load", "build", "clear", "spawn", "save", "join", "done">>

MainOrder == <<"load", "build", "clear", "spawn", "join", "save", "done">>

MainStep == MainOrder[mainpc]

\* The row handed to the thread created in iteration yv of the loop at 329:
\* threads.emplace_back(renderRow, y, ...) copies y.
RowArgStale(yv) == IF yv > 0 THEN yv - 1 ELSE 0
RowArg(yv) == yv

\* The cell image(x, row) names.
Cell(x, row) == <<x, row>>

Cells == Cols \X Rows

NoThread == [pc |-> "none", row |-> 0, x |-> 0, sample |-> 0, draws |-> 0,
             inDraw |-> FALSE, sawScene |-> TRUE]

NoCell == [writers |-> {}, resets |-> 0, accs |-> 0, divs |-> 0]

\* The scene as main() finds it: the static triangle list of box.h:35-114,
\* no mesh appended, the octree not built.
SceneInit == [triangles |-> 0, octree |-> 0]

SceneComplete == scene.triangles = 1 /\ scene.octree = 1

\* A std::thread exists: created and not yet joined.
ThreadsLive == \E i \in Rows : threads[i].pc \notin {"none", "joined"}

LogWrite(what) == IF ThreadsLive THEN sceneLog \cup {what} ELSE sceneLog

RenderInit ==
    /\ mainpc = 1
    /\ y = 0
    /\ scene = SceneInit
    /\ sceneLog = {}
    /\ threads = [i \in Rows |-> NoThread]
    /\ image = [c \in Cells |-> NoCell]
    /\ saved = FALSE

\* box.h:313-316
MainLoad ==
    /\ MainStep = "load"
    /\ scene' = [scene EXCEPT !.triangles = 1]
    /\ sceneLog' = LogWrite("triangles")
    /\ mainpc' = mainpc + 1
    /\ UNCHANGED <<y, threads, image, saved>>

\* box.h:317
MainBuild ==
    /\ MainStep = "build"
    /\ scene' = [scene EXCEPT !.octree = 1]
    /\ sceneLog' = LogWrite("octree")
    /\ mainpc' = mainpc + 1
    /\ UNCHANGED <<y, threads, image, saved>>

\* box.h:328
MainClear ==
    /\ MainStep = "clear"
    /\ threads' = [i \in Rows |-> NoThread]
    /\ y' = 0
    /\ mainpc' = mainpc + 1
    /\ UNCHANGED <<scene, sceneLog, image, saved>>

\* box.h:329-330: one iteration of the loop, or its exit.
MainSpawn ==
    /\ MainStep = "spawn"
    /\ IF y < ImageHeight
         THEN /\ threads' = [threads EXCEPT ![y] =
                                [NoThread EXCEPT !.pc = "reset", !.row = RowArg(y)]]
              /\ y' = y + 1
              /\ UNCHANGED mainpc
         ELSE /\ mainpc' = mainpc + 1
              /\ y' = 0
              /\ UNCHANGED threads
    /\ UNCHANGED <<scene, sceneLog, image, saved>>

\* box.h:332-333: thread.join() returns once the thread has finished.
MainJoin ==
    /\ MainStep = "join"
    /\ IF y < ImageHeight
         THEN /\ threads[y].pc = "done"
              /\ threads' = [threads EXCEPT ![y].pc = "joined"]
              /\ y' = y + 1
              /\ UNCHANGED mainpc
         ELSE /\ mainpc' = mainpc + 1
              /\ UNCHANGED <<y, threads>>
    /\ UNCHANGED <<scene, sceneLog, image, saved>>

\* box.h:336
MainSave ==
    /\ MainStep = "save"
    /\ saved' = TRUE
    /\ mainpc' = mainpc + 1
    /\ UNCHANGED <<y, scene, sceneLog, threads, image>>

\* box.h:263: image(x, row) = Vec3f{0.0f}
RowReset(i) ==
    LET t == threads[i] c == Cell(t.x, t.row) IN
    /\ t.pc = "reset"
    /\ image' = [image EXCEPT ![c] = [writers |-> @.writers \cup {i},
                                      resets |-> @.resets + 1,
                                      accs |-> 0, divs |-> 0]]
    /\ threads' = [threads EXCEPT ![i].pc = IF MaxSpp > 0 THEN "draw_u" ELSE "div",
                                  ![i].sample = 0]
    /\ UNCHANGED <<mainpc, y, scene, sceneLog, saved>>

\* A draw from UniformSampler begins: box.h:265, 266 and, inside
\* shade_with_light_sampling, 193, 214, 218, 232.  The calls are made with
\* no lock held.
DrawBegin(i) ==
    LET t == threads[i] IN
    /\ ~t.inDraw
    /\ \/ t.pc \in {"draw_u", "draw_v"}
       \/ t.pc = "shade" /\ t.draws > 0
    /\ threads' = [threads EXCEPT ![i].inDraw = TRUE]
    /\ UNCHANGED <<mainpc, y, scene, sceneLog, image, saved>>

\* The draw returns.
DrawEnd(i) ==
    LET t == threads[i] IN
    /\ t.inDraw
    /\ threads' = [threads EXCEPT
                     ![i].inDraw = FALSE,
                     ![i].pc = CASE t.pc = "draw_u" -> "draw_v"
                                 [] t.pc = "draw_v" -> "trace"
                                 [] OTHER -> t.pc,
                     ![i].draws = IF t.pc = "shade" THEN t.draws - 1 ELSE t.draws]
    /\ UNCHANGED <<mainpc, y, scene, sceneLog, image, saved>>

\* box.h:267-268 and 250-257: the camera ray is traced through the octree and
\* the triangle list (a read of the scene); a miss or an emitter returns with
\* no draw, a surface hit calls shade_with_light_sampling, which draws.
RowTrace(i) ==
    LET t == threads[i] IN
    /\ t.pc = "trace"
    /\ \E k \in 0 .. MaxShadeDraws :
         threads' = [threads EXCEPT ![i].pc = "shade", ![i].draws = k,
                                    ![i].sawScene = t.sawScene /\ SceneComplete]
    /\ UNCHANGED <<mainpc, y, scene, sceneLog, image, saved>>

\* box.h:268: image(x, row) += clamp(...), and the sample loop's step.
RowAccumulate(i) ==
    LET t == threads[i] c == Cell(t.x, t.row) IN
    /\ t.pc = "shade" /\ t.draws = 0 /\ ~t.inDraw
    /\ image' = [image EXCEPT ![c].writers = @ \cup {i}, ![c].accs = @ + 1]
    /\ threads' = [threads EXCEPT
                     ![i].sample = t.sample + 1,
                     ![i].pc = IF t.sample + 1 < MaxSpp THEN "draw_u" ELSE "div"]
    /\ UNCHANGED <<mainpc, y, scene, sceneLog, saved>>

\* box.h:270: image(x, row) /= max_spp, and the x loop's step.
RowDivide(i) ==
    LET t == threads[i] c == Cell(t.x, t.row) IN
    /\ t.pc = "div"
    /\ image' = [image EXCEPT ![c].writers = @ \cup {i}, ![c].divs = @ + 1]
    /\ threads' = [threads EXCEPT
                     ![i].x = IF t.x + 1 < ImageWidth THEN t.x + 1 ELSE t.x,
                     ![i].pc = IF t.x + 1 < ImageWidth THEN "reset" ELSE "done"]
    /\ UNCHANGED <<mainpc, y, scene, sceneLog, saved>>

renderRow(i) ==
    \/ RowReset(i)
    \/ DrawBegin(i)
    \/ DrawEnd(i)
    \/ RowTrace(i)
    \/ RowAccumulate(i)
    \/ RowDivide(i)

main ==
    \/ MainLoad
    \/ MainBuild
    \/ MainClear
    \/ MainSpawn
    \/ MainJoin
    \/ MainSave


\* No call of the integrator or of a Dielectric function is in progress.
NoCall == [fn |-> "none"]

NoResult == [done |-> FALSE, exact |-> TRUE, v |-> Zero, primary |-> "none",
             ray_dir |-> ZeroVec]

ShadeIdle == stack = <<>> /\ result = NoResult /\ folded = FALSE

Init ==
    /\ RenderInit
    /\ ShadeIdle
    /\ call = NoCall

Next ==
    \/ main /\ UNCHANGED <<stack, result, folded, call>>
    \/ \E i \in Rows : renderRow(i) /\ UNCHANGED <<stack, result, folded, call>>

Spec == Init /\ [][Next]_vars

(***************************************************************************)
(* C1: no two row threads ever write the same pixel cell: every row index  *)
(* 0 .. height-1 is given to exactly one thread, and a thread writes only  *)
(* the cells image(x, row) of the row it was given.                        *)
(***************************************************************************)
Created == {i \in Rows : threads[i].pc # "none"}

C1_RowsDisjoint ==
    /\ \A c \in Cells : \A i \in image[c].writers :
          /\ image[c].writers = {i}
          /\ threads[i].row = c[2]
    /\ \A i, j \in Created : threads[i].row = threads[j].row => i = j
    /\ MainStep \in {"join", "save", "done"} =>
          {threads[i].row : i \in Created} = Rows

\* Every row thread has finished, and every cell has been written.
C1_Witness ==
    /\ MainStep = "save"
    /\ \A c \in Cells : image[c].writers # {} /\ image[c].divs = 1
    /\ Cardinality({threads[i].row : i \in Rows}) = ImageHeight

(***************************************************************************)
(* C2: no two row threads are inside a draw of the process-wide            *)
(* UniformSampler stream at the same time.                                 *)
(***************************************************************************)
C2_DrawsExclusive ==
    \A i, j \in Rows : (threads[i].inDraw /\ threads[j].inDraw) => i = j

(***************************************************************************)
(* C9: from the start of the first row thread to the join of the last one  *)
(* the triangle list and the octree are not written: the mesh is appended  *)
(* and the octree built before the first thread is created, and the row    *)
(* threads only read them (and read them complete).                        *)
(***************************************************************************)
C9_SceneFrozenWhileRendering ==
    /\ sceneLog = {}
    /\ ThreadsLive => SceneComplete
    /\ \A i \in Rows : threads[i].sawScene

\* Two row threads are live, one of them having traced a ray through the scene.
C9_Witness ==
    /\ \A i \in Rows : threads[i].pc \notin {"none", "joined"}
    /\ \E i \in Rows : threads[i].pc = "shade" /\ threads[i].sawScene
    /\ SceneComplete

(***************************************************************************)
(* The arguments the Dielectric functions are applied to.                  *)
(***************************************************************************)
\* const Dielectric Glass{.eta = 1.5f, .roughness = 0.25f} (box.h:19), and
\* other materials of the valid range eta > 0, roughness >= 0.
Glass == [eta |-> Milli(1500), roughness |-> Milli(250)]
Dielectrics == {Glass,
                [eta |-> Milli(1500), roughness |-> Zero],
                [eta |-> One, roughness |-> One],
                [eta |-> Milli(667), roughness |-> Half],
                [eta |-> Milli(1450), roughness |-> Milli(250)]}

\* Unit vectors, the grazing ones (z = 0) among them.
V3(x, yy, z) == <<Milli(x), Milli(yy), Milli(z)>>

UnitDirs == {V3(0, 0, 1000), V3(0, 0, -1000),
             V3(0, 600, 800), V3(0, -600, 800), V3(0, 800, 600), V3(0, -280, 960),
             V3(600, 0, 800), V3(0, 600, -800), V3(0, -800, -600), V3(-800, 0, -600),
             V3(0, 1000, 0), V3(1000, 0, 0)}

\* Directions wo of Dielectric::sample: the unit vectors, and one at the
\* critical angle of eta = 1.45 (cos = sqrt(1 - 1 / 1.45^2) = 0.7242).
SampleDirs == UnitDirs \cup {<<Zero, Norm(6896, -4), Norm(7242, -4)>>}

\* Face normals of the scene (box.h:35-114).
FaceNormals == {V3(0, 0, 1000), V3(0, 0, -1000), V3(0, 1000, 0)}

\* Cosines in [-1, 1].
Cosines == {Milli(c) : c \in {-1000, -960, -800, -600, -280, -1, 0, 1, 280, 600,
                              745, 746, 800, 960, 1000}}

\* Uniform randoms in [0, 1); the second and third select the normal.
SelectU == {Milli(c) : c \in {0, 40, 500, 999}}
ThetaU == {Milli(c) : c \in {0, 500, 900}}
PhiU == {Milli(c) : c \in {0, 250, 500, 750}}

CallFresnel ==
    /\ call = NoCall
    /\ \E mat \in Dielectrics, c \in Cosines :
        call' = [fn |-> "Fresnel", mat |-> mat, c |-> c, r |-> FresnelR(mat, c)]

CallD ==
    /\ call = NoCall
    /\ \E mat \in Dielectrics, h \in UnitDirs :
        call' = [fn |-> "D", mat |-> mat, h |-> h, r |-> DR(mat, h)]

CallG1 ==
    /\ call = NoCall
    /\ \E mat \in Dielectrics, w \in UnitDirs, h \in UnitDirs :
        call' = [fn |-> "G1", mat |-> mat, w |-> w, h |-> h, r |-> G1R(mat, w, h)]

CallEval ==
    /\ call = NoCall
    /\ \E mat \in Dielectrics, wo \in UnitDirs, wi \in UnitDirs, n \in FaceNormals :
        call' = [fn |-> "eval", mat |-> mat, wo |-> wo, wi |-> wi, n |-> n,
                 r |-> Dielectric_evalR(mat, wo, wi, n)]

CallSample ==
    /\ call = NoCall
    /\ \E mat \in Dielectrics, wo \in SampleDirs, n \in FaceNormals,
       u \in SelectU \X ThetaU \X PhiU :
        call' = [fn |-> "sample", mat |-> mat, wo |-> wo, n |-> n, u |-> u,
                 r |-> Dielectric_sample(mat, wo, n, u)]

BsdfInit ==
    /\ RenderInit
    /\ ShadeIdle
    /\ call = NoCall

\* The call returns to its caller.
CallReturn ==
    /\ call # NoCall
    /\ call' = NoCall

BsdfNext ==
    \/ CallFresnel /\ UNCHANGED <<renderVars, shadeVars>>
    \/ CallD /\ UNCHANGED <<renderVars, shadeVars>>
    \/ CallG1 /\ UNCHANGED <<renderVars, shadeVars>>
    \/ CallEval /\ UNCHANGED <<renderVars, shadeVars>>
    \/ CallSample /\ UNCHANGED <<renderVars, shadeVars>>
    \/ CallReturn /\ UNCHANGED <<renderVars, shadeVars>>

BsdfSpec == BsdfInit /\ [][BsdfNext]_vars


(***************************************************************************)
(* C6: no division made by Dielectric::D, G1, Fresnel or eval has a zero   *)
(* denominator, for unit directions (grazing ones included), roughness     *)
(* >= 0 and eta > 0.                                                       *)
(***************************************************************************)
C6_NoZeroDenominator ==
    call.fn \in {"D", "G1", "Fresnel", "eval"} => Zero \notin call.r.dens

(***************************************************************************)
(* C7: Dielectric::sample reflects exactly when the first random is below  *)
(* F = Fresnel(dot(wo, m)), m the normal drawn from the other two randoms, *)
(* and then returns F; otherwise it returns 1 - F with the refracted       *)
(* direction, or 0 with the zero direction.  The value returned is never   *)
(* scaled by the pdf of the normal.                                        *)
(***************************************************************************)
C7_Fresnel_m ==
    Fresnel(call.mat,
            dot(normalize(to_local(call.wo, call.n)),
                sample_normal(call.mat, <<call.u[2], call.u[3]>>).m))

C10_Ranges ==
    /\ call.fn = "Fresnel" => FGe(call.r.v, Zero) /\ FLe(call.r.v, One)
    /\ call.fn = "D" => /\ FGe(call.r.v, Zero)
                        /\ FLt(call.h[3], Zero) => call.r.v = Zero
    /\ call.fn = "G1" => FGe(call.r.v, Zero) /\ FLe(call.r.v, One)

(***************************************************************************)
(* The integrator: box.h, lines 9-33 and 163-258.  Radiance, albedo and    *)
(* light colour are followed in one colour channel, the red one: every     *)
(* Vec3f operation of the integrator acts on each channel separately.      *)
(* Positions are not modelled: the shadow ray, its length and the outcome  *)
(* of each intersection query are chosen among the possible ones.          *)
(***************************************************************************)
MaxDepth == 3       \* invocations kept on stack in ShadeSpec
LiveDepth == 2      \* invocations kept on stack in ShadeLive

PI == Norm(3142, -3)                    \* #define PI 3.141592653589 (README.md:197)
light_color == Milli(50000)             \* box.h:15
light_normal == V3(0, 0, -1000)         \* box.h:16
inv_light_area == FDiv(One, FMul(Milli(160), Milli(160)))   \* box.h:12-14

\* box.h:20-33: the red albedo of Back, Bottom, Left, Right, Top, then the
\* Bunny's Glass; the seventh element of the array has no initialiser and is
\* a value-initialised Lambertian.
Lambertian(albedo) == [kind |-> "Lambertian", albedo |-> albedo]
materials ==
    << Lambertian(Zero), Lambertian(One), Lambertian(Zero), Lambertian(Milli(996)),
       Lambertian(Milli(874)), [kind |-> "Dielectric", mat |-> Glass],
       Lambertian(Zero) >>

Triangle(emission, material_id, face_normal) ==
    [emission |-> emission, material_id |-> material_id, face_normal |-> face_normal]

\* box.h:35-114 and 312-316: a Light triangle, a Back one, a Bottom one and
\* one triangle of the bunny (material 5).
triangles ==
    { Triangle(light_color, 0, V3(0, 0, -1000)),
      Triangle(Zero, 0, V3(0, 1000, 0)),
      Triangle(Zero, 1, V3(0, 0, 1000)),
      Triangle(Zero, 5, V3(-1000, 0, 0)) }

\* No triangle: where a camera ray starts.
NoTriangle == Triangle(Zero, 0, ZeroVec)

Material(tri) == materials[tri.material_id + 1]

\* box.h:163
is_emitter(tri) == tri.emission # Zero

\* box.h:171-175
eval_area_light(light_dir) ==
    IF FGt(dot(light_dir, light_normal), Zero) THEN light_color ELSE Zero

\* README.md:208-210
Lambertian_eval(material) == FMul(material.albedo, INV_PI)

\* README.md:220-224
Lambertian_dir(normal, r, sc, u) ==
    [wi |-> from_local(normalize(<<FMul(r, sc[2]), FMul(r, sc[1]), u[1]>>), normal),
     pdf |-> FDiv(One, FMul(Two, PI))]

\* README.md:217-225
Lambertian_sample(normal, u) ==
    Lambertian_dir(normal, FSqrt(FMax(Zero, FSub(One, FMul(u[1], u[1])))),
                   SinCos2Pi(u[2]), u)

\* RayTracer::closest_hit(p, dir, octree, triangles) for a point p of the
\* triangle from: the nearest triangle the ray meets, or hit = FALSE with an
\* undefined triangle.  A ray meets neither a triangle it is parallel to nor
\* the plane it starts on; nothing is known of the answer for the zero
\* direction.
closest_hit(from, dir) ==
    {[hit |-> FALSE, tri |-> t] : t \in triangles}
    \cup {[hit |-> TRUE, tri |-> t] :
            t \in {tt \in triangles :
                     dir = ZeroVec \/ (tt # from /\ dot(dir, tt.face_normal) # Zero)}}

\* box.h:202-208: the direct term, for the unit direction wi1 to the sampled
\* light point at squared distance dist_to_light_squared.
direct_ratio(Li, fr, cos, cos_prime, dist_to_light_squared) ==
    FDiv(FMul(FMul(Li, fr), cos),
         FDiv(FMul(inv_light_area, dist_to_light_squared), cos_prime))

\* Lines 202-209 without the test of line 206, a Dielectric taking fr = 1.
direct_termAnyMaterial(tri, wi1, dist_to_light_squared) ==
    direct_ratio(eval_area_light(VNeg(wi1)),
                 IF Material(tri).kind = "Lambertian"
                   THEN Lambertian_eval(Material(tri)) ELSE One,
                 FMax(Zero, dot(normalize(tri.face_normal), wi1)),
                 FMax(dot(VNeg(wi1), normalize(light_normal)), Zero),
                 dist_to_light_squared)

direct_term(tri, wi1, dist_to_light_squared) ==
    IF Material(tri).kind = "Lambertian"
      THEN direct_ratio(eval_area_light(VNeg(wi1)), Lambertian_eval(Material(tri)),
                        FMax(Zero, dot(normalize(tri.face_normal), wi1)),
                        FMax(dot(VNeg(wi1), normalize(light_normal)), Zero),
                        dist_to_light_squared)
      ELSE Zero

\* box.h:201: the test that lets the direct term be computed.
DirectTaken(hit1, nearest_tri1) == is_emitter(nearest_tri1)

\* A roulette that always continues.
p_rr_always == One

\* box.h:213-214
p_rr == Milli(800)

\* The comparison of box.h:214 turned round.
RouletteStopsBelow(u) == FLt(u, p_rr)

\* box.h:214
RouletteStops(u) == FGt(u, p_rr)

\* The test of box.h:223 without its first conjunct.
LambertianRecursesOnMiss(hit2, nearest_tri2) == ~is_emitter(nearest_tri2)

\* The test of box.h:237 without its last conjunct.
DielectricRecursesAnyPdf(hit2, nearest_tri2, pdf_wi) == hit2 /\ ~is_emitter(nearest_tri2)

\* box.h:223 and 237: the tests that let shade_with_light_sampling call itself.
LambertianRecurses(hit2, nearest_tri2) == hit2 /\ ~is_emitter(nearest_tri2)
DielectricRecurses(hit2, nearest_tri2, pdf_wi) ==
    hit2 /\ ~is_emitter(nearest_tri2) /\ FGt(pdf_wi, Zero)


\* The inputs: the camera rays of path_tracing_with_light_sampling, the
\* direction and squared distance to the sampled light point, and the
\* uniform draws (next1d for the roulette, next2d for Lambertian::sample,
\* next3d for Dielectric::sample).
CameraDirs == {V3(0, -600, -800), V3(600, 0, -800), V3(0, 600, 800)}
LightDirs == {V3(0, 600, 800), V3(0, 1000, 0), V3(-600, 0, 800)}
LightDist2 == {Milli(250)}
RouletteU == {Milli(500), Milli(800), Milli(900)}
LambertianU == {<<Milli(280), Zero>>, <<Milli(800), Zero>>}
DielectricU == {<<ux, uy, Zero>> : ux \in {Zero, Milli(999)}, uy \in {Zero, Milli(900)}}

\* box.h:202-208 for every triangle and shadow ray.
direct_terms ==
    [tri \in triangles, wi1 \in LightDirs, dist_to_light_squared \in LightDist2 |->
        direct_term(tri, wi1, dist_to_light_squared)]

\* box.h:218, 224: wi2, pdf_wi and cos for the sample s.
Lambertian_bounce(normal, s) ==
    [wi |-> s.wi, pdf |-> s.pdf,
     cos |-> FMax(dot(normalize(normal), normalize(s.wi)), Zero)]

\* box.h:218, 224 for every normal and draw.
Lambertian_bounces ==
    [normal \in {t.face_normal : t \in triangles}, u \in LambertianU |->
        Lambertian_bounce(normal, Lambertian_sample(normal, u))]

\* The directions wo a Dielectric triangle is shaded with: the reverse of a
\* camera ray (257) or of a direction sampled on a Lambertian triangle (227);
\* a ray leaving the one triangle of the bunny does not meet the bunny.
Dielectric_wo ==
    {VNeg(d) : d \in CameraDirs}
    \cup {VNeg(Lambertian_bounces[t.face_normal, u].wi) : t \in triangles, u \in LambertianU}

\* box.h:232, 235, 238: wi2, pdf_wi, fr and cos for the sample s.
Dielectric_bounce(tri, wo, s) ==
    [wi |-> s.wi, pdf |-> s.pdf, branch |-> s.branch,
     fr |-> Dielectric_eval(Material(tri).mat, wo, s.wi, tri.face_normal),
     cos |-> FAbs(dot(normalize(tri.face_normal), normalize(s.wi)))]

\* box.h:232, 235, 238 for every Dielectric triangle, wo and draw.
Dielectric_bounces ==
    [tri \in {t \in triangles : Material(t).kind = "Dielectric"}, wo \in Dielectric_wo,
     u \in DielectricU |->
        Dielectric_bounce(tri, wo,
                          Dielectric_sample(Material(tri).mat, wo, tri.face_normal, u))]

\* An invocation shade_with_light_sampling(tri, p, wo) at its first statement,
\* for the triangle of the query answer h; hit is what that query reported.
\* hit1, direct and L_dir are what lines 197-211 left, drawn says that the
\* roulette was drawn, samples counts the calls of material.sample, null says
\* that the sample was the null one, hit2 and emitter2 are the answer of the
\* query of line 219 or 233, calls counts the recursive calls.
\* pc is where it stands: "direct" (190-211), "roulette" (213-214), "bounce"
\* (216-245), "wait" (inside the recursive call of 227 or 240), "done" (at a
\* return statement, with the value ret).  wo is kept where it is read: by
\* the Dielectric branch (232, 235), until the recursive call.  draws counts
\* the calls of UniformSampler (193, 214, 218, 232), queries those of
\* closest_hit (197, 219, 233); exceeds is the outcome of the comparison of
\* line 214.  L_ind is the indirect term (227, 240), zero until assigned.
Frame(h, wo) ==
    [tri |-> h.tri, hit |-> h.hit,
     wo |-> IF Material(h.tri).kind = "Dielectric" THEN wo ELSE ZeroVec,
     pc |-> "direct",
     hit1 |-> FALSE, direct |-> FALSE, L_dir |-> Zero, drawn |-> FALSE,
     samples |-> 0, null |-> FALSE, hit2 |-> FALSE, emitter2 |-> FALSE, calls |-> 0,
     fr |-> Zero, cos |-> Zero, pdf_wi |-> Zero, ret |-> Zero,
     draws |-> 0, queries |-> 0, exceeds |-> FALSE, L_ind |-> Zero]

\* The innermost invocation, and the stack with f in its place.
Top == stack[Len(stack)]
WithTop(f) == [stack EXCEPT ![Len(stack)] = f]

\* The stack once the innermost invocation, now f, has called
\* shade_with_light_sampling(h.tri, q, wo): at most depth invocations are kept,
\* the outermost one is dropped to make room.
Called(f, h, wo, depth) ==
    IF Len(stack) >= depth THEN Append(Tail(WithTop(f)), Frame(h, wo))
    ELSE Append(WithTop(f), Frame(h, wo))

Returned(primary, ray_dir, v) ==
    [done |-> TRUE, exact |-> ~folded, v |-> IF folded THEN Zero ELSE v,
     primary |-> primary, ray_dir |-> ray_dir]

\* box.h:251-253
PathMiss ==
    /\ stack = <<>> /\ ~result.done
    /\ \E ray_dir \in CameraDirs : \E h \in closest_hit(NoTriangle, ray_dir) :
         /\ ~h.hit
         /\ result' = Returned("miss", ray_dir, Zero)
    /\ UNCHANGED <<stack, folded>>

\* box.h:251-255
PathEmitter ==
    /\ stack = <<>> /\ ~result.done
    /\ \E ray_dir \in CameraDirs : \E h \in closest_hit(NoTriangle, ray_dir) :
         /\ h.hit /\ is_emitter(h.tri)
         /\ result' = Returned("emitter", ray_dir, eval_area_light(VNeg(ray_dir)))
    /\ UNCHANGED <<stack, folded>>

\* box.h:251-257
PathShade ==
    /\ stack = <<>> /\ ~result.done
    /\ \E ray_dir \in CameraDirs : \E h \in closest_hit(NoTriangle, ray_dir) :
         /\ h.hit /\ ~is_emitter(h.tri)
         /\ stack' = <<Frame(h, VNeg(ray_dir))>>
    /\ UNCHANGED <<result, folded>>

\* box.h:190-211
ShadeDirect ==
    /\ stack # <<>> /\ Top.pc = "direct"
    /\ \E wi1 \in LightDirs, dist_to_light_squared \in LightDist2 :
         \E h \in closest_hit(Top.tri, wi1) :
           stack' = WithTop([Top EXCEPT
                       !.pc = "roulette", !.draws = @ + 1, !.queries = @ + 1,
                       !.hit1 = h.hit,
                       !.direct = DirectTaken(h.hit, h.tri),
                       !.L_dir = IF DirectTaken(h.hit, h.tri)
                                   THEN direct_terms[Top.tri, wi1, dist_to_light_squared]
                                   ELSE Zero])
    /\ UNCHANGED <<result, folded>>

\* box.h:213-214: next1d() > p_rr, return L_dir.
RouletteStop ==
    /\ stack # <<>> /\ Top.pc = "roulette"
    /\ \E u \in RouletteU :
         /\ RouletteStops(u)
         /\ stack' = WithTop([Top EXCEPT !.pc = "done", !.drawn = TRUE, !.draws = @ + 1,
                                         !.exceeds = FGt(u, p_rr),
                                         !.ret = Top.L_dir])
    /\ UNCHANGED <<result, folded>>

\* box.h:213-214: next1d() <= p_rr.
RouletteContinue ==
    /\ stack # <<>> /\ Top.pc = "roulette"
    /\ \E u \in RouletteU :
         /\ ~RouletteStops(u)
         /\ stack' = WithTop([Top EXCEPT !.pc = "bounce", !.drawn = TRUE, !.draws = @ + 1,
                                         !.exceeds = FGt(u, p_rr),
                                         !.hit1 = FALSE, !.direct = FALSE])
    /\ UNCHANGED <<result, folded>>

\* box.h:216-229.  The invocation suspended in the recursive call keeps what
\* the statement of line 227 still reads: L_dir, fr, cos and pdf_wi.
LambertianBounce(depth) ==
    /\ stack # <<>> /\ Top.pc = "bounce"
    /\ Material(Top.tri).kind = "Lambertian"
    /\ \E u \in LambertianU :
         \E s \in {Lambertian_bounces[Top.tri.face_normal, u]} :
         \E h \in closest_hit(Top.tri, s.wi) :
           IF LambertianRecurses(h.hit, h.tri)
             THEN /\ stack' = Called([Top EXCEPT
                                 !.pc = "wait", !.wo = ZeroVec, !.samples = @ + 1,
                                 !.draws = @ + 1, !.queries = @ + 1,
                                 !.calls = @ + 1,
                                 !.hit2 = h.hit, !.emitter2 = h.hit /\ is_emitter(h.tri),
                                 !.fr = Lambertian_eval(Material(Top.tri)),
                                 !.cos = s.cos,
                                 !.pdf_wi = s.pdf],
                               h, VNeg(s.wi), depth)
                  /\ folded' = (folded \/ Len(stack) >= depth)
             ELSE /\ stack' = WithTop([Top EXCEPT
                                 !.pc = "done", !.samples = @ + 1,
                                 !.draws = @ + 1, !.queries = @ + 1,
                                 !.hit2 = h.hit, !.emitter2 = h.hit /\ is_emitter(h.tri),
                                 !.ret = FAdd(Top.L_dir, Zero)])
                  /\ UNCHANGED folded
    /\ UNCHANGED result

\* box.h:230-245
DielectricBounce(depth) ==
    /\ stack # <<>> /\ Top.pc = "bounce"
    /\ Material(Top.tri).kind = "Dielectric"
    /\ \E u \in DielectricU :
         \E s \in {Dielectric_bounces[Top.tri, Top.wo, u]} :
         \E h \in closest_hit(Top.tri, s.wi) :
           IF DielectricRecurses(h.hit, h.tri, s.pdf)
             THEN /\ stack' = Called([Top EXCEPT
                                 !.pc = "wait", !.wo = ZeroVec, !.samples = @ + 1,
                                 !.draws = @ + 1, !.queries = @ + 1,
                                 !.calls = @ + 1,
                                 !.hit2 = h.hit, !.emitter2 = h.hit /\ is_emitter(h.tri),
                                 !.null = (s.branch = "null"),
                                 !.fr = s.fr, !.cos = s.cos,
                                 !.pdf_wi = s.pdf],
                               h, VNeg(s.wi), depth)
                  /\ folded' = (folded \/ Len(stack) >= depth)
             ELSE /\ stack' = WithTop([Top EXCEPT
                                 !.pc = "done", !.samples = @ + 1,
                                 !.draws = @ + 1, !.queries = @ + 1,
                                 !.null = (s.branch = "null"),
                                 !.hit2 = h.hit, !.emitter2 = h.hit /\ is_emitter(h.tri),
                                 !.ret = FAdd(Top.L_dir, Zero)])
                  /\ UNCHANGED folded
    /\ UNCHANGED result

\* box.h:227, 240, 247: the recursive call returns rec = Top.ret; the caller
\* computes L_ind = rec * fr * cos / p_rr / pdf_wi, left to right, and
\* returns L_dir + L_ind.
ShadeReturn ==
    /\ Len(stack) > 1 /\ Top.pc = "done"
    /\ \E caller \in {stack[Len(stack) - 1]} :
       \E rec_fr \in {FMul(Top.ret, caller.fr)} :
       \E rec_fr_cos \in {FMul(rec_fr, caller.cos)} :
       \E over_p_rr \in {FDiv(rec_fr_cos, p_rr)} :
       \E L_ind \in {FDiv(over_p_rr, caller.pdf_wi)} :
         stack' = Append(SubSeq(stack, 1, Len(stack) - 2),
                         [caller EXCEPT !.pc = "done", !.L_ind = L_ind,
                                        !.ret = FAdd(caller.L_dir, L_ind)])
    /\ UNCHANGED <<result, folded>>

\* box.h:257: the outermost invocation returns to
\* path_tracing_with_light_sampling.
ShadeFinish ==
    /\ Len(stack) = 1 /\ Top.pc = "done"
    /\ stack' = <<>>
    /\ result' = Returned("shade", ZeroVec, Top.ret)
    /\ UNCHANGED folded

RouletteStopStep == RouletteStop /\ UNCHANGED <<renderVars, call>>

ShadeInit ==
    /\ RenderInit
    /\ ShadeIdle
    /\ call = NoCall

ShadeNext(depth) ==
    \/ PathMiss /\ UNCHANGED <<renderVars, call>>
    \/ PathEmitter /\ UNCHANGED <<renderVars, call>>
    \/ PathShade /\ UNCHANGED <<renderVars, call>>
    \/ ShadeDirect /\ UNCHANGED <<renderVars, call>>
    \/ RouletteStopStep
    \/ RouletteContinue /\ UNCHANGED <<renderVars, call>>
    \/ LambertianBounce(depth) /\ UNCHANGED <<renderVars, call>>
    \/ DielectricBounce(depth) /\ UNCHANGED <<renderVars, call>>
    \/ ShadeReturn /\ UNCHANGED <<renderVars, call>>
    \/ ShadeFinish /\ UNCHANGED <<renderVars, call>>

ShadeSpec == ShadeInit /\ [][ShadeNext(MaxDepth)]_vars

\* Every step of the single thread is eventually taken, and a roulette drawn
\* again and again comes out above p_rr at some draw.
ShadeLive ==
    /\ ShadeInit
    /\ [][ShadeNext(LiveDepth)]_vars
    /\ WF_vars(ShadeNext(LiveDepth))
    /\ SF_vars(RouletteStopStep)

Frames == {stack[i] : i \in DOMAIN stack}

(***************************************************************************)
(* C5: the direct term is computed only when the shadow-ray query reports  *)
(* a hit and the nearest triangle is the emitter; when the query reports   *)
(* no hit, the triangle it returns decides nothing and the direct term is  *)
(* zero.                                                                   *)
(***************************************************************************)
C5_DirectOnlyOnEmitterHit ==
    \A f \in Frames :
        /\ f.direct => f.hit1
        /\ (f.pc = "roulette" /\ ~f.hit1) => f.L_dir = Zero

(***************************************************************************)
(* C4: an invocation whose Dielectric::sample returned the null sample     *)
(* (zero direction, probability 0) makes no recursive call, so it never    *)
(* divides by that probability (the division is part of the statement of   *)
(* the call), draws no second sample, and returns its direct term.         *)
(***************************************************************************)
C4_NullSampleEndsPath ==
    \A f \in Frames :
        f.null => /\ f.pc = "done"
                  /\ f.calls = 0
                  /\ f.samples = 1
                  /\ f.ret = f.L_dir

\* A null sample whose ray query answered with a hit on a non-emitter: the
\* test pdf_wi > 0 alone kept the invocation from calling itself.
C4_Witness ==
    \E f \in Frames : f.null /\ f.pc = "done" /\ f.hit2 /\ ~f.emitter2

(***************************************************************************)
(* C8: on a Lambertian surface of albedo zero, shade_with_light_sampling   *)
(* returns the zero radiance, whatever the draws and the answers of the    *)
(* intersection queries.                                                   *)
(***************************************************************************)
C8_AbsorberReturnsZero ==
    \A f \in Frames :
        (f.pc = "done" /\ Material(f.tri) = Lambertian(Zero)) => f.ret = Zero

(***************************************************************************)
(* C3: every call of shade_with_light_sampling returns (and so does the    *)
(* path_tracing_with_light_sampling that made the first one), provided the *)
(* roulette does not come out "continue" for ever; and an invocation       *)
(* inside a recursive call has drawn its roulette.                         *)
(***************************************************************************)
C3_EveryCallReturns ==
    /\ [](\A f \in Frames : f.pc = "wait" => f.drawn)
    /\ (stack # <<>>) ~> (stack = <<>> /\ result.done)

\* A path that went deeper than the invocations kept, and returned.
C3_Witness == result.done /\ folded

(***************************************************************************)
(* C11: shade_with_light_sampling is invoked, by                           *)
(* path_tracing_with_light_sampling or by itself, only for a triangle that *)
(* an intersection query reported as hit and that is not an emitter.  A    *)
(* camera ray that misses gives zero radiance, one whose nearest hit is    *)
(* the emitter gives eval_area_light of the reversed ray, and a sampled    *)
(* ray that misses or hits the emitter adds nothing to L_dir.              *)
(***************************************************************************)
C11_ShadeOnlyOnNonEmitterHit ==
    /\ \A f \in Frames :
         /\ f.hit /\ ~is_emitter(f.tri)
         /\ (f.samples = 1 /\ (~f.hit2 \/ f.emitter2)) =>
                f.calls = 0 /\ f.pc = "done" /\ f.ret = f.L_dir
    /\ result.primary = "miss" => stack = <<>> /\ result.v = Zero
    /\ result.primary = "emitter" =>
         stack = <<>> /\ result.v = eval_area_light(VNeg(result.ray_dir))

\* An invocation made by another one, whose own sampled ray then missed.
C11_Witness ==
    /\ Len(stack) >= 2
    /\ Top.pc = "done" /\ Top.samples = 1 /\ ~Top.hit2

(***************************************************************************)
(* C12: in every invocation of shade_with_light_sampling the roulette      *)
(* draw comes after the direct term (one sampler draw and one query made,  *)
(* the invocation past its direct part) and before any BSDF sample; an     *)
(* invocation whose draw exceeded p_rr stands at its return with exactly   *)
(* the direct term, having made no BSDF sample, no third draw, no second   *)
(* query and no recursive call.                                            *)
(***************************************************************************)
C12_RouletteStopReturnsDirect ==
    \A f \in Frames :
      /\ f.drawn => f.pc # "direct" /\ f.queries >= 1 /\ f.draws >= 2
      /\ ~f.drawn => f.samples = 0 /\ f.draws <= 1 /\ f.queries <= 1
      /\ (f.drawn /\ f.exceeds) =>
           /\ f.pc = "done" /\ f.ret = f.L_dir
           /\ f.samples = 0 /\ f.draws = 2 /\ f.queries = 1 /\ f.calls = 0

\* A recursive invocation stopped by the roulette with a direct term that is
\* not zero.
C12_Witness ==
    /\ Len(stack) >= 2
    /\ Top.drawn /\ Top.exceeds /\ Top.pc = "done" /\ Top.L_dir # Zero

(***************************************************************************)
(* C13: an invocation of shade_with_light_sampling on a triangle whose     *)
(* material is a Dielectric has a zero direct term whether or not the      *)
(* sampled light point is visible; what it returns is its indirect term,   *)
(* and zero when the roulette stopped it.                                  *)
(***************************************************************************)
C13_DielectricDirectIsZero ==
    \A f \in Frames :
      Material(f.tri).kind = "Dielectric" =>
        /\ f.L_dir = Zero
        /\ f.pc = "done" => f.ret = f.L_ind
        /\ (f.pc = "done" /\ f.exceeds) => f.ret = Zero

\* A Dielectric invocation that saw the light, with its triangle facing it,
\* and was stopped by the roulette.
C13_Witness ==
    /\ stack # <<>>
    /\ Material(Top.tri).kind = "Dielectric"
    /\ Top.hit1 /\ Top.direct /\ Top.pc = "done" /\ Top.exceeds
    /\ \E wi1 \in LightDirs : FGt(dot(normalize(Top.tri.face_normal), wi1), Zero)

(***************************************************************************)
(* C14: the image is saved only after every row thread has been joined;    *)
(* by then every row has been rendered by one completed renderRow call,    *)
(* its own, so that every pixel has been reset once, accumulated max_spp   *)
(* times since and divided once since.                                     *)
(***************************************************************************)
C14_SavedImageIsComplete ==
    saved =>
      /\ \A i \in Rows : threads[i].pc = "joined" /\ threads[i].row = i
      /\ \A c \in Cells :
           /\ image[c].writers = {c[2]}
           /\ image[c].resets = 1
           /\ image[c].accs = MaxSpp
           /\ image[c].divs = 1

\* The image has been saved, every row thread having traced max_spp samples
\* for its last pixel.
C14_Witness ==
    /\ saved
    /\ \A i \in Rows : threads[i].sample = MaxSpp /\ threads[i].x = ImageWidth - 1

\* README.md:297-298: the product eval tests, for the directions of a sample
\* call: wo and the returned wi, each taken to the local frame of n.
eval_wi_wo_z(wo_world, wi_world, n) ==
    FMul(normalize(to_local(wi_world, n))[3], normalize(to_local(wo_world, n))[3])

(***************************************************************************)
(* C15: for wo with wo.z # 0 in the local frame, Dielectric::eval          *)
(* classifies (wo, wi) the way Dielectric::sample produced wi: a wi of the *)
(* reflection branch has wo.z * wi.z > 0 and a wi of the transmission      *)
(* branch has wo.z * wi.z < 0.                                             *)
(***************************************************************************)
C15_EvalClassifiesAsSampled ==
    (/\ call.fn = "sample"
     /\ normalize(to_local(call.wo, call.n))[3] # Zero) =>
        /\ call.r.branch = "reflect" =>
             FGt(eval_wi_wo_z(call.wo, call.r.wi, call.n), Zero)
        /\ call.r.branch = "transmit" =>
             FLt(eval_wi_wo_z(call.wo, call.r.wi, call.n), Zero)

\* README.md:339, 343, 352: wo in the local frame and cos_thetaO = dot(wo, m)
\* of a sample call.
sample_wo == normalize(to_local(call.wo, call.n))
sample_cos_thetaO == dot(sample_wo, sample_normal(call.mat, <<call.u[2], call.u[3]>>).m)

\* README.md:244, 352: both entering tests true, or both false with neither
\* operand zero.
SameStrictSign(a, b) == (FGt(a, Zero) /\ FGt(b, Zero)) \/ (FLt(a, Zero) /\ FLt(b, Zero))

(***************************************************************************)
(* C16: Dielectric::sample returns the null sample only when wo.z and      *)
(* dot(wo, m) do not have the same strict sign; when they have, either     *)
(* Fresnel returned 1 and the reflection branch is taken, or the sample is *)
(* not null.                                                               *)
(***************************************************************************)
C16_NullOnlyOnSignMismatch ==
    call.fn = "sample" =>
        /\ call.r.branch = "null" => ~SameStrictSign(sample_wo[3], sample_cos_thetaO)
        /\ SameStrictSign(sample_wo[3], sample_cos_thetaO) =>
             IF Fresnel(call.mat, sample_cos_thetaO) = One
               THEN call.r.branch = "reflect"
               ELSE call.r.branch \in {"reflect", "transmit"}

=============================================================================
